---- MODULE Spec2Model ----
(***************************************************************************)
(* Model of src/editor.py: a shared Document (content, undo/redo stacks,   *)
(* registered windows) edited through several EditorWindow views.  Each    *)
(* action is one event handler of EditorWindow, including every Document   *)
(* call it makes.  Strings are sequences of one-character strings.         *)
(***************************************************************************)
EXTENDS Integers, Sequences, FiniteSets, TLC

\* ---------------------------------------------------------------- bounds
MaxLen == 2        \* longest string explored: content, and the text held by a command
MaxHist == 2       \* most entries held by undo_stack and redo_stack together
MaxCursor == 2     \* largest cursor_pos explored (a stale cursor may pass the end)
MaxOpen == 2       \* most windows registered at one time
MaxCreated == 2    \* most EditorWindow objects ever constructed
MaxOpenWin == 3    \* the same two bounds for the window-lifecycle specification
MaxCreatedWin == 4
MaxText == 3       \* longest buffer of the command-level specification
MaxCmds == 1       \* most undo entries held in the command-level specification

None == -1         \* Python's None, for the int-or-None fields
NoSelection == <<>> \* Python's None where a (start, end) tuple may stand
Chars == {"a", "b"}
NL == "\n"
InitContents == {<<"a">>, <<"a", "b">>}   \* what Document.__init__ may load
InitLines == {<<NL, "a">>, <<"a", NL>>}   \* files of two lines

VARIABLES
  content,      \* Document.content
  undo_stack,   \* Document.undo_stack (last element = top)
  redo_stack,   \* Document.redo_stack
  windows,      \* Document.windows, each element one EditorWindow's fields
  created,      \* history: number of EditorWindow objects constructed
  last,         \* history: what the most recent handler asked of the Document
  orig,         \* history: content right after Document.__init__
  pristine      \* history: TRUE until the first undo or redo request

vars == <<content, undo_stack, redo_stack, windows, created, last, orig, pristine>>

\* ------------------------------------------------------- Python helpers
Min(a, b) == IF a <= b THEN a ELSE b
Max(a, b) == IF a >= b THEN a ELSE b

\* s[i:j] for 0 <= i, 0 <= j: indices past the end are clamped
Slice(s, i, j) == SubSeq(s, Min(i, Len(s)) + 1, Min(j, Len(s)))

Top(s) == s[Len(s)]
Pop(s) == SubSeq(s, 1, Len(s) - 1)

\* ------------------------------------------------------------- Commands
\* origin is a history field: the identity of the view object that built the
\* command (window_id is what the code compares).
InsertCommand(c, text, pos, cursor_pos, selection, window_id, view) ==
  [type |-> "Insert", text |-> text, pos |-> pos,
   cursor_before |-> cursor_pos, selection_before |-> selection,
   window_id |-> window_id, cursor_after |-> None, selection_after |-> NoSelection,
   origin |-> view]

DeleteCommand(c, start, end, cursor_pos, selection, window_id, view) ==
  [type |-> "Delete", start |-> start, end |-> end,
   deleted_text |-> Slice(c, start, end),
   cursor_before |-> cursor_pos, selection_before |-> selection,
   window_id |-> window_id, cursor_after |-> None, selection_after |-> NoSelection,
   origin |-> view]

\* InsertExecute that adds the text at the end of the buffer
InsertExecuteAtEnd(cmd, c) == c \o cmd.text

InsertExecute(cmd, c) ==
  Slice(c, 0, cmd.pos) \o cmd.text \o Slice(c, cmd.pos, Len(c))

InsertUndo(cmd, c) ==
  Slice(c, 0, cmd.pos) \o Slice(c, cmd.pos + Len(cmd.text), Len(c))

DeleteExecute(cmd, c) ==
  Slice(c, 0, cmd.start) \o Slice(c, cmd.end, Len(c))

\* DeleteUndo that puts the text back where the range ended
DeleteUndoAtEnd(cmd, c) ==
  Slice(c, 0, cmd.end) \o cmd.deleted_text \o Slice(c, cmd.end, Len(c))

DeleteUndo(cmd, c) ==
  Slice(c, 0, cmd.start) \o cmd.deleted_text \o Slice(c, cmd.start, Len(c))

\* command.execute(): new content, the command with cursor_after set, and
\* the returned (cursor, selection)
Execute(cmd, c) ==
  LET cur == IF cmd.type = "Insert" THEN cmd.pos + Len(cmd.text) ELSE cmd.start
  IN  [content |-> IF cmd.type = "Insert" THEN InsertExecute(cmd, c)
                   ELSE DeleteExecute(cmd, c),
       cmd |-> [cmd EXCEPT !.cursor_after = cur, !.selection_after = NoSelection],
       cursor |-> cur, selection |-> NoSelection]

\* command.undo(): new content and the returned (cursor, selection)
Undo(cmd, c) ==
  [content |-> IF cmd.type = "Insert" THEN InsertUndo(cmd, c)
               ELSE DeleteUndo(cmd, c),
   cursor |-> cmd.cursor_before, selection |-> cmd.selection_before]

\* ------------------------------------------------------------- Document
Doc(c, u, r) == [content |-> c, undo_stack |-> u, redo_stack |-> r]

can_group_with_last(u, command) ==
  IF u = <<>> THEN FALSE
  ELSE IF command.type # Top(u).type THEN FALSE
  ELSE IF command.window_id # Top(u).window_id THEN FALSE
  ELSE TRUE

\* which branch of execute_command the command takes
MergeKind(u, command) ==
  IF ~can_group_with_last(u, command) THEN "push"
  ELSE IF command.type = "Insert"
       THEN IF command.pos = Top(u).pos + Len(Top(u).text) THEN "typing" ELSE "push"
       ELSE IF command.end = Top(u).start THEN "backspace"
            ELSE IF command.start = Top(u).start THEN "delete"
            ELSE "push"

\* the stack-top command after the incoming command was folded into it
MergeInsert(last_cmd, command, cursor) ==
  [last_cmd EXCEPT !.text = last_cmd.text \o command.text,
                   !.cursor_after = cursor, !.selection_after = NoSelection]

\* MergeBackspace with the two texts joined the wrong way round
MergeBackspaceAppended(last_cmd, command, cursor) ==
  [last_cmd EXCEPT !.deleted_text = last_cmd.deleted_text \o command.deleted_text,
                   !.start = command.start,
                   !.cursor_after = cursor, !.selection_after = NoSelection]

MergeBackspace(last_cmd, command, cursor) ==
  [last_cmd EXCEPT !.deleted_text = command.deleted_text \o last_cmd.deleted_text,
                   !.start = command.start,
                   !.cursor_after = cursor, !.selection_after = NoSelection]

MergeDelete(last_cmd, command, cursor) ==
  [last_cmd EXCEPT !.deleted_text = last_cmd.deleted_text \o command.deleted_text,
                   !.end = command.end,
                   !.cursor_after = cursor, !.selection_after = NoSelection]

\* ClearRedo that forgets to clear in the merging branches
ClearRedoOnPushOnly(r, kind) == IF kind = "push" THEN <<>> ELSE r

\* the redo stack execute_command leaves behind (kind = branch taken)
ClearRedo(r, kind) == <<>>

execute_command(doc, command) ==
  LET kind == MergeKind(doc.undo_stack, command)
      ex   == Execute(command, doc.content)
      u    == doc.undo_stack
      newu == CASE kind = "typing"    -> Append(Pop(u), MergeInsert(Top(u), command, ex.cursor))
                [] kind = "backspace" -> Append(Pop(u), MergeBackspace(Top(u), command, ex.cursor))
                [] kind = "delete"    -> Append(Pop(u), MergeDelete(Top(u), command, ex.cursor))
                [] OTHER              -> Append(u, ex.cmd)
  IN  [doc |-> Doc(ex.content, newu, ClearRedo(doc.redo_stack, kind)),
       cursor |-> ex.cursor, selection |-> ex.selection, kind |-> kind]

\* DocUndo that takes the oldest entry of the stack instead of the newest
DocUndoOldest(doc) ==
  IF doc.undo_stack = <<>> THEN [doc |-> doc, result |-> <<None, None>>]
  ELSE LET command == Head(doc.undo_stack)
           un == Undo(command, doc.content)
       IN  [doc |-> Doc(un.content, Tail(doc.undo_stack), Append(doc.redo_stack, command)),
            result |-> <<un.cursor, un.selection, command.window_id>>]

\* Document.undo: result is <<None, None>> or <<cursor, selection, window_id>>
DocUndo(doc) ==
  IF doc.undo_stack = <<>> THEN [doc |-> doc, result |-> <<None, None>>]
  ELSE LET command == Top(doc.undo_stack)
           un == Undo(command, doc.content)
       IN  [doc |-> Doc(un.content, Pop(doc.undo_stack), Append(doc.redo_stack, command)),
            result |-> <<un.cursor, un.selection, command.window_id>>]

DocRedo(doc) ==
  IF doc.redo_stack = <<>> THEN [doc |-> doc, result |-> <<None, None>>]
  ELSE LET command == Top(doc.redo_stack)
           ex == Execute(command, doc.content)
       IN  [doc |-> Doc(ex.content, Append(doc.undo_stack, ex.cmd), Pop(doc.redo_stack)),
            result |-> <<ex.cursor, ex.selection, command.window_id>>]

\* Document.notify_windows: the objects whose refresh_display is called
RECURSIVE notify_windows(_, _)
notify_windows(ws, exclude_window) ==
  IF ws = <<>> THEN <<>>
  ELSE (IF Head(ws).obj # exclude_window THEN <<Head(ws).obj>> ELSE <<>>)
       \o notify_windows(Tail(ws), exclude_window)

\* --------------------------------------------------- coordinate mapping
\* content.split('\n')
RECURSIVE split(_)
split(c) ==
  IF c = <<>> THEN << <<>> >>
  ELSE LET rest == split(Tail(c))
       IN  IF Head(c) = NL THEN << <<>> >> \o rest
           ELSE << <<Head(c)>> \o Head(rest) >> \o Tail(rest)

RECURSIVE SumLines(_, _)
\* sum of len(lines[i]) + 1 over the first n lines that exist
SumLines(lines, n) ==
  IF n <= 0 THEN 0
  ELSE SumLines(lines, n - 1) + (IF n <= Len(lines) THEN Len(lines[n]) + 1 ELSE 0)

\* get_index_from_position after the widget resolved "@x,y" to row.col
get_index_from_position(c, row, col) ==
  LET lines == split(c)
  IN  SumLines(lines, row - 1)
      + Min(col, IF row - 1 < Len(lines) THEN Len(lines[row]) ELSE 0)

\* PositionFrom that does not count the line break between two rows
RECURSIVE PositionFromNoBreak(_, _, _, _)
PositionFromNoBreak(lines, row, current_pos, pos) ==
  IF row > Len(lines)
  THEN <<Len(lines), IF lines # <<>> THEN Len(lines[Len(lines)]) ELSE 0>>
  ELSE IF current_pos + Len(lines[row]) >= pos
       THEN <<row, pos - current_pos>>
       ELSE PositionFromNoBreak(lines, row + 1, current_pos + Len(lines[row]), pos)

\* get_position_from_index: <<row, col>>, rows counted from 1
RECURSIVE PositionFrom(_, _, _, _)
PositionFrom(lines, row, current_pos, pos) ==
  IF row > Len(lines)
  THEN <<Len(lines), IF lines # <<>> THEN Len(lines[Len(lines)]) ELSE 0>>
  ELSE IF current_pos + Len(lines[row]) >= pos
       THEN <<row, pos - current_pos>>
       ELSE PositionFrom(lines, row + 1, current_pos + Len(lines[row]) + 1, pos)

get_position_from_index(c, pos) == PositionFrom(split(c), 1, 0, pos)

\* the row.col indices the widget can report: a place in the shown text
WidgetIndices(c) ==
  LET lines == split(c)
  IN  {rc \in (1..Len(lines)) \X (0..Len(c)) : rc[2] <= Len(lines[rc[1]])}

\* ---------------------------------------------------------- EditorWindow
\* EditorWindow.__init__; obj is the object's identity, master the identity
\* of the window it was opened from (0 = the hidden Tk root)
EditorWindow(obj, window_id, master) ==
  [obj |-> obj, window_id |-> window_id, master |-> master,
   cursor_pos |-> 0, selection_start |-> None, selection_end |-> None,
   cursor_x_goal |-> None, drag_start |-> None, shift_drag_anchor |-> None]

on_click(w, pos) ==
  [w EXCEPT !.cursor_pos = pos, !.selection_start = pos, !.selection_end = None,
            !.drag_start = pos, !.shift_drag_anchor = pos, !.cursor_x_goal = None]

on_drag(w, current_pos) ==
  IF w.drag_start # None
  THEN IF current_pos # w.drag_start
       THEN [w EXCEPT !.cursor_pos = current_pos,
                      !.selection_start = Min(w.drag_start, current_pos),
                      !.selection_end = Max(w.drag_start, current_pos)]
       ELSE [w EXCEPT !.cursor_pos = current_pos, !.selection_end = None]
  ELSE w

on_shift_click(w, current_pos) ==
  IF w.shift_drag_anchor # None
  THEN [w EXCEPT !.cursor_pos = current_pos,
                 !.selection_start = Min(w.shift_drag_anchor, current_pos),
                 !.selection_end = Max(w.shift_drag_anchor, current_pos)]
  ELSE w

\* handle_arrow_key.  Left reads content[cursor_pos] after stepping back:
\* with the cursor past the end that read raises IndexError and the handler
\* stops before it resets cursor_x_goal.
handle_arrow_key(w, c, key) ==
  LET w0 == [w EXCEPT !.selection_start = None, !.selection_end = None]
  IN  CASE key = "Left" ->
             IF w0.cursor_pos > 0
             THEN IF w0.cursor_pos - 1 > 0 /\ w0.cursor_pos - 1 >= Len(c)
                  THEN [w0 EXCEPT !.cursor_pos = w0.cursor_pos - 1]
                  ELSE [w0 EXCEPT !.cursor_pos = w0.cursor_pos - 1, !.cursor_x_goal = None]
             ELSE [w0 EXCEPT !.cursor_x_goal = None]
        [] key = "Right" ->
             IF w0.cursor_pos < Len(c)
             THEN [w0 EXCEPT !.cursor_pos = w0.cursor_pos + 1, !.cursor_x_goal = None]
             ELSE [w0 EXCEPT !.cursor_x_goal = None]
        [] OTHER ->
             LET rc == get_position_from_index(c, w0.cursor_pos)
                 goal == IF w0.cursor_x_goal = None THEN rc[2] ELSE w0.cursor_x_goal
                 row == IF key = "Up" THEN rc[1] - 1 ELSE rc[1] + 1
                 lines == split(c)
             IN  IF 0 <= row - 1 /\ row - 1 < Len(lines)
                 THEN [w0 EXCEPT !.cursor_x_goal = goal,
                                 !.cursor_pos = SumLines(lines, row - 1)
                                                + Min(goal, Len(lines[row]))]
                 ELSE [w0 EXCEPT !.cursor_x_goal = goal]

\* the DeleteCommand the three key handlers build for a selection
SelectionDelete(w, doc) ==
  DeleteCommand(doc.content, Min(w.selection_start, w.selection_end),
                Max(w.selection_start, w.selection_end), w.cursor_pos,
                <<w.selection_start, w.selection_end>>, w.window_id, w.obj)

\* Each handler below yields the document and the window it leaves, the
\* branch taken by each execute_command call it made (kinds), and the
\* number of notify_windows calls it made (notifies).
insert_text(w, doc, text) ==
  LET hasSel == w.selection_end # None
      r1 == execute_command(doc, SelectionDelete(w, doc))
      d1 == IF hasSel THEN r1.doc ELSE doc
      w1 == IF hasSel
            THEN [w EXCEPT !.cursor_pos = r1.cursor,
                           !.selection_start = None, !.selection_end = None]
            ELSE w
      cmd == InsertCommand(d1.content, text, w1.cursor_pos, w1.cursor_pos,
                           <<w1.selection_start, w1.selection_end>>,
                           w1.window_id, w1.obj)
      r2 == execute_command(d1, cmd)
  IN  [doc |-> r2.doc,
       w |-> [w1 EXCEPT !.cursor_pos = r2.cursor, !.selection_start = None,
                        !.selection_end = None, !.cursor_x_goal = None],
       kinds |-> (IF hasSel THEN <<r1.kind>> ELSE <<>>) \o <<r2.kind>>,
       notifies |-> 1]

handle_backspace(w, doc) ==
  LET hasSel == w.selection_end # None
      cmd == IF hasSel THEN SelectionDelete(w, doc)
             ELSE DeleteCommand(doc.content, w.cursor_pos - 1, w.cursor_pos,
                                w.cursor_pos, <<w.selection_start, w.selection_end>>,
                                w.window_id, w.obj)
      acts == hasSel \/ w.cursor_pos > 0
      r == execute_command(doc, cmd)
      w1 == IF acts THEN [w EXCEPT !.cursor_pos = r.cursor] ELSE w
  IN  [doc |-> IF acts THEN r.doc ELSE doc,
       w |-> [w1 EXCEPT !.selection_start = None, !.selection_end = None,
                        !.cursor_x_goal = None],
       kinds |-> IF acts THEN <<r.kind>> ELSE <<>>,
       notifies |-> 1]

handle_delete(w, doc) ==
  LET hasSel == w.selection_end # None
      cmd == IF hasSel THEN SelectionDelete(w, doc)
             ELSE DeleteCommand(doc.content, w.cursor_pos, w.cursor_pos + 1,
                                w.cursor_pos, <<w.selection_start, w.selection_end>>,
                                w.window_id, w.obj)
      acts == hasSel \/ w.cursor_pos < Len(doc.content)
      r == execute_command(doc, cmd)
      w1 == IF acts THEN [w EXCEPT !.cursor_pos = r.cursor] ELSE w
  IN  [doc |-> IF acts THEN r.doc ELSE doc,
       w |-> [w1 EXCEPT !.selection_start = None, !.selection_end = None,
                        !.cursor_x_goal = None],
       kinds |-> IF acts THEN <<r.kind>> ELSE <<>>,
       notifies |-> 1]

\* TakeResult that takes the cursor of an empty result as offset 0
TakeResultUnguarded(w, result) ==
  IF result[1] # None
  THEN IF result[3] = w.window_id
       THEN LET selection == IF result[2] # NoSelection THEN result[2]
                             ELSE <<None, None>>
            IN  [w EXCEPT !.cursor_pos = result[1],
                          !.selection_start = selection[1],
                          !.selection_end = selection[2]]
       ELSE w
  ELSE [w EXCEPT !.cursor_pos = 0]

\* EditorWindow.undo / redo after the Document call: the window's fields
\* given the result tuple
TakeResult(w, result) ==
  IF result[1] # None
  THEN IF result[3] = w.window_id
       THEN LET selection == IF result[2] # NoSelection THEN result[2]
                             ELSE <<None, None>>
            IN  [w EXCEPT !.cursor_pos = result[1],
                          !.selection_start = selection[1],
                          !.selection_end = selection[2]]
       ELSE w
  ELSE w

undo(w, doc) ==
  LET r == DocUndo(doc)
  IN  [doc |-> r.doc, w |-> TakeResult(w, r.result), result |-> r.result,
       notifies |-> IF r.result[1] # None THEN 1 ELSE 0]

redo(w, doc) ==
  LET r == DocRedo(doc)
  IN  [doc |-> r.doc, w |-> TakeResult(w, r.result), result |-> r.result,
       notifies |-> IF r.result[1] # None THEN 1 ELSE 0]

\* -------------------------------------------------------------- history
Event(op, win, kinds, result, notifies, refreshed) ==
  [op |-> op, win |-> win, kinds |-> kinds, result |-> result,
   notifies |-> notifies, refreshed |-> refreshed]

\* recorded for the handlers that make no Document request
NoEvent == Event("none", 0, <<>>, "none", 0, <<>>)

\* ---------------------------------------------------------------- state
\* Document.__init__ and main(): the file's text (none if the file does not
\* exist) and one registered window with window_id 0
InitWith(contents) ==
  /\ content \in contents
  /\ orig = content
  /\ undo_stack = <<>>
  /\ redo_stack = <<>>
  /\ windows = << EditorWindow(1, 0, 0) >>
  /\ created = 1
  /\ last = NoEvent
  /\ pristine = TRUE

Init == InitWith(InitContents)

InitNew == InitWith({<<>>})

TheDoc == Doc(content, undo_stack, redo_stack)

CommandText(cmd) == IF cmd.type = "Insert" THEN cmd.text ELSE cmd.deleted_text

\* the part of a step shared by the editing handlers
Commit(op, i, h, result) ==
  /\ Len(h.doc.content) <= MaxLen
  /\ \A k \in 1..Len(h.doc.undo_stack) : Len(CommandText(h.doc.undo_stack[k])) <= MaxLen
  /\ Len(h.doc.undo_stack) + Len(h.doc.redo_stack) <= MaxHist
  /\ h.w.cursor_pos <= MaxCursor
  /\ content' = h.doc.content
  /\ undo_stack' = h.doc.undo_stack
  /\ redo_stack' = h.doc.redo_stack
  /\ windows' = [windows EXCEPT ![i] = h.w]
  /\ last' = Event(op, windows[i].obj, h.kinds, result, h.notifies,
                   IF h.notifies > 0 THEN notify_windows(windows', windows[i].obj)
                   ELSE <<>>)
  /\ UNCHANGED <<created, orig>>

\* a gesture that only moves the cursor or the selection of one window
Gesture(i, w) ==
  /\ windows' = [windows EXCEPT ![i] = w]
  /\ last' = NoEvent
  /\ UNCHANGED <<content, undo_stack, redo_stack, created, orig, pristine>>

Click(i) ==
  \E rc \in WidgetIndices(content) :
    Gesture(i, on_click(windows[i], get_index_from_position(content, rc[1], rc[2])))

Drag(i) ==
  \E rc \in WidgetIndices(content) :
    Gesture(i, on_drag(windows[i], get_index_from_position(content, rc[1], rc[2])))

ShiftClick(i) ==
  \E rc \in WidgetIndices(content) :
    Gesture(i,
            on_shift_click(windows[i], get_index_from_position(content, rc[1], rc[2])))

KeyLeft(i) == Gesture(i, handle_arrow_key(windows[i], content, "Left"))

KeyRight(i) == Gesture(i, handle_arrow_key(windows[i], content, "Right"))

KeyUp(i) == Gesture(i, handle_arrow_key(windows[i], content, "Up"))

KeyDown(i) == Gesture(i, handle_arrow_key(windows[i], content, "Down"))

\* on_key with the printable character ch
KeyCharOf(i, ch) ==
  LET h == insert_text(windows[i], TheDoc, <<ch>>)
  IN  /\ Commit("insert_text", i, h, "none")
      /\ UNCHANGED pristine

KeyChar(i) == \E ch \in Chars : KeyCharOf(i, ch)

\* on_key with Return
KeyReturn(i) == KeyCharOf(i, NL)

KeyBackSpace(i) ==
  LET h == handle_backspace(windows[i], TheDoc)
  IN  /\ Commit("handle_backspace", i, h, "none")
      /\ UNCHANGED pristine

KeyDelete(i) ==
  LET h == handle_delete(windows[i], TheDoc)
  IN  /\ Commit("handle_delete", i, h, "none")
      /\ UNCHANGED pristine

CtrlZ(i) ==
  LET h == undo(windows[i], TheDoc)
  IN  /\ Commit("undo", i, [h EXCEPT !.result = <<>>] @@ [kinds |-> <<>>],
                IF h.result[1] # None THEN "ok" ELSE "empty")
      /\ pristine' = FALSE

CtrlY(i) ==
  LET h == redo(windows[i], TheDoc)
  IN  /\ Commit("redo", i, [h EXCEPT !.result = <<>>] @@ [kinds |-> <<>>],
                IF h.result[1] # None THEN "ok" ELSE "empty")
      /\ pristine' = FALSE

\* open_new_window: the new window is a child of windows[i]
OpenNewWindow(i, maxOpen, maxCreated) ==
  /\ Len(windows) < maxOpen
  /\ created < maxCreated
  /\ created' = created + 1
  /\ windows' = Append(windows, EditorWindow(created + 1, Len(windows), windows[i].obj))
  /\ last' = NoEvent
  /\ UNCHANGED <<content, undo_stack, redo_stack, orig, pristine>>

CtrlO(i) == OpenNewWindow(i, MaxOpen, MaxCreated)

\* Document.unregister_window
unregister_window(ws, obj) == SelectSeq(ws, LAMBDA v : v.obj # obj)

\* on_close.  Destroying a Toplevel destroys the windows opened from it, so
\* only a window no registered window was opened from is closed here.
Close(i) ==
  /\ \A j \in 1..Len(windows) : windows[j].master # windows[i].obj
  /\ windows' = unregister_window(windows, windows[i].obj)
  /\ last' = NoEvent
  /\ UNCHANGED <<content, undo_stack, redo_stack, created, orig, pristine>>

Next ==
  \E i \in 1..Len(windows) :
    \/ KeyLeft(i)
    \/ KeyRight(i)
    \/ KeyChar(i)
    \/ KeyBackSpace(i)
    \/ KeyDelete(i)
    \/ CtrlZ(i)
    \/ CtrlY(i)
    \/ CtrlO(i)
    \/ Close(i)

Spec == Init /\ [][Next]_vars

\* The key handlers of one window on a new file: the buffer starts empty.
NextNew ==
  \/ KeyLeft(1)
  \/ KeyRight(1)
  \/ KeyChar(1)
  \/ KeyBackSpace(1)
  \/ KeyDelete(1)
  \/ CtrlZ(1)
  \/ CtrlY(1)

SpecNew == InitNew /\ [][NextNew]_vars

\* Window lifecycle on a new file: more windows, opened and closed, with
\* typing only.
CtrlOWin(i) == OpenNewWindow(i, MaxOpenWin, MaxCreatedWin)

NextWin ==
  \E i \in 1..Len(windows) :
    \/ KeyRight(i)
    \/ KeyChar(i)
    \/ CtrlZ(i)
    \/ CtrlOWin(i)
    \/ Close(i)

SpecWin == InitNew /\ [][NextWin]_vars

\* Mouse gestures and selections, one window.
NextMouse ==
  \/ Click(1)
  \/ Drag(1)
  \/ ShiftClick(1)
  \/ KeyChar(1)
  \/ KeyBackSpace(1)
  \/ KeyDelete(1)
  \/ CtrlZ(1)
  \/ CtrlY(1)

SpecMouse == Init /\ [][NextMouse]_vars

\* The Document used directly, with no window registered: commands built
\* against the current buffer are applied with execute_command and taken
\* back with Document.undo.
Strings(n) == UNION {[1..k -> Chars \cup {NL}] : k \in 0..n}

InitCmd ==
  /\ content \in Strings(MaxText)
  /\ orig = content
  /\ undo_stack = <<>>
  /\ redo_stack = <<>>
  /\ windows = <<>>
  /\ created = 0
  /\ last = NoEvent
  /\ pristine = TRUE

\* the (cursor, selection) snapshots a caller may hand to a command: a bare
\* cursor at the start, or the whole buffer selected with the cursor at its end
Snapshots == {<<0, NoSelection>>, <<Len(content), <<0, Len(content)>>>>}
WindowIds == {0, 1}

\* document.execute_command(command); last records the command, the buffer
\* it was built against and the returned pair
Apply(command) ==
  LET r == execute_command(TheDoc, command)
  IN  /\ Len(r.doc.content) <= MaxText
      /\ Len(r.doc.undo_stack) <= MaxCmds
      /\ content' = r.doc.content
      /\ undo_stack' = r.doc.undo_stack
      /\ redo_stack' = r.doc.redo_stack
      /\ last' = Event("apply", 0, <<r.kind>>, <<r.cursor, r.selection>>, 0, <<>>)
                  @@ [command |-> command, before |-> content]
      /\ UNCHANGED <<windows, created, orig, pristine>>

ApplyInsert(text, pos, cursor_pos, selection, window_id) ==
  Apply(InsertCommand(content, text, pos, cursor_pos, selection, window_id, 0))

ApplyDelete(start, end, cursor_pos, selection, window_id) ==
  Apply(DeleteCommand(content, start, end, cursor_pos, selection, window_id, 0))

\* document.undo(); last records the returned tuple
UndoRequest ==
  LET r == DocUndo(TheDoc)
  IN  /\ undo_stack # <<>>
      /\ content' = r.doc.content
      /\ undo_stack' = r.doc.undo_stack
      /\ redo_stack' = r.doc.redo_stack
      /\ last' = Event("undo", 0, <<>>, r.result, 0, <<>>)
      /\ pristine' = FALSE
      /\ UNCHANGED <<windows, created, orig>>

NextCmd ==
  \/ \E ch \in Chars \cup {NL} : \E pos \in 0..Len(content) :
       \E snap \in Snapshots : \E wid \in WindowIds :
         ApplyInsert(<<ch>>, pos, snap[1], snap[2], wid)
  \/ \E start \in 0..Len(content) : \E end \in start..Len(content) :
       \E snap \in Snapshots : \E wid \in WindowIds :
         ApplyDelete(start, end, snap[1], snap[2], wid)
  \/ UndoRequest

SpecCmd == InitCmd /\ [][NextCmd]_vars

\* The two conversions of a window called directly on a fixed buffer.
\* get_position_from_index(pos); last records the offset and the pair returned
OffsetToRowCol(o) ==
  /\ last' = Event("get_position_from_index", windows[1].obj, <<>>,
                   get_position_from_index(content, o), 0, <<>>)
              @@ [offset |-> o]
  /\ UNCHANGED <<content, undo_stack, redo_stack, windows, created, orig, pristine>>

\* get_index_from_position for the index row.col; last records the index
\* and the offset returned
RowColToOffset(row, col) ==
  /\ last' = Event("get_index_from_position", windows[1].obj, <<>>,
                   <<row, col>>, 0, <<>>)
              @@ [offset |-> get_index_from_position(content, row, col)]
  /\ UNCHANGED <<content, undo_stack, redo_stack, windows, created, orig, pristine>>

InitMap == InitWith(Strings(MaxText))

NextMap ==
  \/ \E o \in (0 - 1)..(Len(content) + 1) : OffsetToRowCol(o)
  \/ \E rc \in WidgetIndices(content) : RowColToOffset(rc[1], rc[2])

SpecMap == InitMap /\ [][NextMap]_vars

\* Cursor movement over lines, one window: arrow keys and clicks between
\* edits, undo and redo.
NextNav ==
  \/ Click(1)
  \/ KeyLeft(1)
  \/ KeyRight(1)
  \/ KeyUp(1)
  \/ KeyDown(1)
  \/ KeyChar(1)
  \/ KeyReturn(1)
  \/ KeyBackSpace(1)
  \/ KeyDelete(1)
  \/ CtrlZ(1)
  \/ CtrlY(1)

SpecNav == InitWith(InitLines) /\ [][NextNav]_vars

\* the handlers take min() of the two selection ends whenever selection_end
\* is set, so selection_start must then be set too
TypeOK ==
  /\ Len(content) <= MaxLen
  /\ \A i \in 1..Len(windows) :
       windows[i].selection_end # None => windows[i].selection_start # None

\* ================================================================ claims
Views == 1..Len(windows)
EditOps == {"insert_text", "handle_backspace", "handle_delete"}

\* Document.undo applied until the undo stack is empty
RECURSIVE UndoAll(_)
UndoAll(doc) ==
  IF doc.undo_stack = <<>> THEN doc ELSE UndoAll(DocUndo(doc).doc)

\* C1: after any sequence of N edits from the views and nothing else, N
\* calls of undo (at most N entries were pushed, so they empty the stack)
\* leave content as it was before the first edit.
C1_RoundTrip == pristine => UndoAll(TheDoc).content = orig

\* C2: with a non-empty undo stack, undo followed at once by redo leaves
\* content as it was, and a further undo gives the pre-edit content again.
C2_UndoRedoIdentity ==
  undo_stack # <<>> =>
    LET u == DocUndo(TheDoc)
        r == DocRedo(u.doc)
    IN  /\ r.doc.content = content
        /\ DocUndo(r.doc).doc.content = u.doc.content

\* C3: every attached view's cursor lies in 0..len(content).
C3_CursorInBounds ==
  \A i \in Views :
    0 <= windows[i].cursor_pos /\ windows[i].cursor_pos <= Len(content)

\* C4: after a successful undo requested from any view, the view that built
\* the undone command has the cursor and selection the command captured.
C4_UndoRestoresOwner ==
  [][\A i \in Views :
       (undo_stack # <<>> /\ CtrlZ(i)) =>
         \A j \in 1..Len(windows') :
           windows'[j].obj = Top(undo_stack).origin =>
             /\ windows'[j].cursor_pos = Top(undo_stack).cursor_before
             /\ <<windows'[j].selection_start, windows'[j].selection_end>>
                  = Top(undo_stack).selection_before]_vars

\* what a single undo must leave of an Insert entry cmd: content c holds
\* cmd.text at cmd.pos and the undone content u is c without it
InsertRemoved(cmd, c, u) ==
  c = Slice(u, 0, cmd.pos) \o cmd.text \o Slice(u, cmd.pos, Len(u))

\* C5: a view typing at the offset where its own previous insert ended adds
\* no undo entry, the top entry's text is the concatenation of the run, and
\* one undo removes every character of the run (of one character or more).
C5_TypingGroups ==
  [][\A i \in Views : \A ch \in Chars :
       (windows[i].selection_end = None /\ KeyCharOf(i, ch)) =>
         /\ ( /\ undo_stack # <<>>
              /\ Top(undo_stack).type = "Insert"
              /\ Top(undo_stack).origin = windows[i].obj
              /\ windows[i].cursor_pos
                   = Top(undo_stack).pos + Len(Top(undo_stack).text) )
            => /\ Len(undo_stack') = Len(undo_stack)
               /\ Top(undo_stack').text = Top(undo_stack).text \o <<ch>>
         /\ InsertRemoved(Top(undo_stack'), content',
                          DocUndo(Doc(content', undo_stack', redo_stack')).doc.content)]_vars

\* C6: a backspace of one character by the view whose Delete entry on top of
\* the stack starts at its cursor extends that entry (no new entry):
\* deleted_text gains the character on the left, the range grows leftward,
\* and one undo still gives the content from before the run, with
\* deleted_text back at the entry's start; a backspace that starts an entry
\* is undone to the content before it.
C6_BackspaceRun ==
  [][\A i \in Views :
       ( /\ windows[i].selection_end = None
         /\ windows[i].cursor_pos > 0
         /\ KeyBackSpace(i) ) =>
         LET p == windows[i].cursor_pos
             u == DocUndo(Doc(content', undo_stack', redo_stack')).doc.content
             top == Top(undo_stack')
         IN  /\ top.type = "Delete"
             /\ Slice(u, top.start, top.start + Len(top.deleted_text)) = top.deleted_text
             /\ IF /\ undo_stack # <<>>
                   /\ Top(undo_stack).type = "Delete"
                   /\ Top(undo_stack).origin = windows[i].obj
                   /\ Top(undo_stack).start = p
                THEN /\ Len(undo_stack') = Len(undo_stack)
                     /\ top.deleted_text
                          = Slice(content, p - 1, p) \o Top(undo_stack).deleted_text
                     /\ top.start = p - 1
                     /\ top.end = Top(undo_stack).end
                     /\ u = DocUndo(TheDoc).doc.content
                ELSE Len(undo_stack') = Len(undo_stack) + 1 => u = content]_vars

\* a backspace run of two characters was merged, left-to-right order kept
C6_Witness ==
  /\ last.op = "handle_backspace"
  /\ last.kinds = <<"backspace">>
  /\ Top(undo_stack).deleted_text = <<"a", "b">>
  /\ Top(undo_stack).end - Top(undo_stack).start = 2

\* C7: a command is folded into the top undo entry only if that entry was
\* built by the same view.
C7_NoGroupingAcrossViews ==
  [][\A i \in Views :
       (KeyChar(i) /\ \E k \in 1..Len(last'.kinds) : last'.kinds[k] # "push") =>
         Top(undo_stack).origin = windows[i].obj]_vars

\* C8: right after a handler executed a command, merged or pushed, the redo
\* stack is empty and a redo request reports the empty result and changes
\* nothing.
C8_RedoInvalidated ==
  (last.op \in EditOps /\ last.kinds # <<>>) =>
    /\ redo_stack = <<>>
    /\ DocRedo(TheDoc).result = <<None, None>>
    /\ DocRedo(TheDoc).doc = TheDoc

\* a command typed after an undo was merged into the entry left on top
C8_Witness ==
  /\ last.op = "insert_text"
  /\ last.kinds = <<"typing">>
  /\ ~pristine
  /\ redo_stack = <<>>
  /\ Len(Top(undo_stack).text) = 2

\* the objects of the registered windows other than obj, in order
Others(obj) ==
  [k \in 1..Len(SelectSeq(windows, LAMBDA v : v.obj # obj)) |->
     SelectSeq(windows, LAMBDA v : v.obj # obj)[k].obj]

\* C9: a handler that executed a command, or whose undo or redo succeeded,
\* made exactly one notification fan-out, refreshing every other registered
\* view; a handler that changed nothing made none.
C9_NotificationContract ==
  last.op # "none" =>
    IF last.kinds # <<>> \/ last.result = "ok"
    THEN last.notifies = 1 /\ last.refreshed = Others(last.win)
    ELSE last.notifies = 0 /\ last.refreshed = <<>>

\* C10: undo on an empty undo stack and redo on an empty redo stack report
\* the empty result and leave content, both stacks and every view unchanged.
C10_EmptyHistory ==
  [][\A i \in Views :
       ((undo_stack = <<>> /\ CtrlZ(i)) \/ (redo_stack = <<>> /\ CtrlY(i))) =>
         /\ last'.result = "empty"
         /\ last'.notifies = 0
         /\ UNCHANGED <<content, undo_stack, redo_stack, windows>>]_vars

\* an empty undo or redo was requested with two views, one cursor moved
C10_Witness ==
  /\ last.op \in {"undo", "redo"}
  /\ last.result = "empty"
  /\ Len(windows) = 2
  /\ \E i \in Views : windows[i].cursor_pos > 0

\* an offset that is not a place in the buffer c
Outside(o, c) == o < 0 \/ o > Len(c)

\* C11: a handler whose Insert offset, or whose Delete start or end, lies
\* outside 0..len(content) when it calls the Document is rejected: content
\* and both stacks stay as they were (nothing is clamped or applied).
C11_FailFast ==
  [][\A i \in Views :
       /\ \A ch \in Chars :
            ( /\ windows[i].selection_end = None
              /\ Outside(windows[i].cursor_pos, content)
              /\ KeyCharOf(i, ch) )
            => UNCHANGED <<content, undo_stack, redo_stack>>
       /\ ( /\ windows[i].selection_end = None
            /\ windows[i].cursor_pos > 0
            /\ Outside(windows[i].cursor_pos, content)
            /\ KeyBackSpace(i) )
          => UNCHANGED <<content, undo_stack, redo_stack>>]_vars

\* C12: an undo requested from any view takes the top entry of the shared
\* undo stack, whoever built it, reverses it and moves exactly that entry
\* to the redo stack; a redo moves the top entry of the redo stack back;
\* neither changes len(undo_stack) + len(redo_stack).
C12_SharedLifo ==
  [][\A i \in Views :
       /\ (undo_stack # <<>> /\ last'.op = "undo" /\ CtrlZ(i)) =>
            /\ undo_stack' = Pop(undo_stack)
            /\ redo_stack' = Append(redo_stack, Top(undo_stack))
            /\ content' = Undo(Top(undo_stack), content).content
            /\ Len(undo_stack') + Len(redo_stack') = Len(undo_stack) + Len(redo_stack)
       /\ (redo_stack # <<>> /\ last'.op = "redo" /\ CtrlY(i)) =>
            /\ redo_stack' = Pop(redo_stack)
            /\ undo_stack' = Append(undo_stack, Top(redo_stack))
            /\ content' = Execute(Top(redo_stack), content).content
            /\ Len(undo_stack') + Len(redo_stack') = Len(undo_stack) + Len(redo_stack)]_vars

\* a view undid the entry another view had built, with an older entry left
\* below it on the undo stack
C12_Witness ==
  /\ last.op = "undo"
  /\ last.result = "ok"
  /\ redo_stack # <<>>
  /\ Top(redo_stack).origin # last.win
  /\ undo_stack # <<>>

\* the forward effect of every command of the stack u, oldest first, on c
RECURSIVE Replay(_, _)
Replay(u, c) ==
  IF u = <<>> THEN c ELSE Replay(Tail(u), Execute(Head(u), c).content)

\* C13: for a document that started empty, executing the commands of
\* undo_stack in stack order against an empty buffer reproduces content.
C13_ReplayInvariant == Replay(undo_stack, <<>>) = content

\* the command lies within the buffer c and was built against it
ValidFor(cmd, c) ==
  IF cmd.type = "Insert" THEN 0 <= cmd.pos /\ cmd.pos <= Len(c)
  ELSE /\ 0 <= cmd.start /\ cmd.start <= cmd.end /\ cmd.end <= Len(c)
       /\ cmd.deleted_text = SubSeq(c, cmd.start + 1, cmd.end)

\* C14: for an Insert with 0 <= offset <= len(content) and a Delete with
\* 0 <= start <= end <= len(content), built against the current buffer,
\* execute followed by the command's undo leaves content as it was before
\* execute and returns the cursor_before and selection_before given at
\* construction; so does Document.undo when the command was pushed.
C14_Reversible ==
  (last.op = "apply" /\ ValidFor(last.command, last.before)) =>
    LET cmd == last.command
        un == Undo(Execute(cmd, last.before).cmd, content)
        du == DocUndo(TheDoc)
    IN  /\ un.content = last.before
        /\ un.cursor = cmd.cursor_before
        /\ un.selection = cmd.selection_before
        /\ last.kinds = <<"push">> =>
             /\ du.doc.content = last.before
             /\ du.result = <<cmd.cursor_before, cmd.selection_before, cmd.window_id>>

\* a Delete of the middle character of a three-character buffer with a line
\* break, given a selection snapshot, was pushed
C14_Witness ==
  /\ last.op = "apply"
  /\ last.kinds = <<"push">>
  /\ last.command.type = "Delete"
  /\ last.command.start = 1 /\ last.command.end = 2
  /\ last.command.selection_before # NoSelection
  /\ Len(last.before) = 3
  /\ \E k \in 1..3 : last.before[k] = NL

\* C15: for every buffer and every offset o in 0..len(content), the
\* (row, col) that get_position_from_index gives for o, converted back (the
\* lengths plus one of the rows before it, plus col clamped to the row's
\* length), is o; and an index converted to an offset converts back to it.
C15_MappingInverse ==
  /\ \A o \in 0..Len(content) :
       LET rc == get_position_from_index(content, o)
           lines == split(content)
       IN  /\ rc[1] \in 1..Len(lines)
           /\ get_index_from_position(content, rc[1], rc[2]) = o
           /\ SumLines(lines, rc[1] - 1) + Min(rc[2], Len(lines[rc[1]])) = o
  /\ (last.op = "get_position_from_index" /\ ~Outside(last.offset, content)) =>
       get_index_from_position(content, last.result[1], last.result[2]) = last.offset
  /\ last.op = "get_index_from_position" =>
       get_position_from_index(content, last.offset) = last.result

\* the offset just past a line break in the middle of a buffer was converted
C15_Witness ==
  /\ last.op = "get_position_from_index"
  /\ Len(content) = 3
  /\ content[2] = NL
  /\ last.offset = 2
  /\ last.result = <<2, 0>>

\* C16: get_position_from_index called with a negative offset or one
\* greater than len(content) returns no (row, col) pair.
C16_OffsetOutOfRange ==
  (last.op = "get_position_from_index" /\ Outside(last.offset, content)) =>
    Len(last.result) # 2

\* C17: applying an Insert with a valid offset makes content the old content
\* with the text spliced in at the offset and returns the cursor
\* offset + len(text) and no selection; applying a Delete with a valid range
\* makes content the old content without [start, end) and returns the cursor
\* start and no selection.
C17_ApplyResult ==
  (last.op = "apply" /\ ValidFor(last.command, last.before)) =>
    LET cmd == last.command
        old == last.before
    IN  IF cmd.type = "Insert"
        THEN /\ content = SubSeq(old, 1, cmd.pos) \o cmd.text
                            \o SubSeq(old, cmd.pos + 1, Len(old))
             /\ last.result = <<cmd.pos + Len(cmd.text), NoSelection>>
        ELSE /\ content = SubSeq(old, 1, cmd.start) \o SubSeq(old, cmd.end + 1, Len(old))
             /\ last.result = <<cmd.start, NoSelection>>

\* an Insert was applied between the two characters of a buffer, given a
\* selection snapshot
C17_Witness ==
  /\ last.op = "apply"
  /\ last.command.type = "Insert"
  /\ last.command.pos = 1
  /\ Len(last.before) = 2
  /\ last.command.selection_before # NoSelection
  /\ last.result = <<2, NoSelection>>

\* C18: every Delete command held in undo_stack or redo_stack, merged or
\* not, has end - start = len(deleted_text).
C18_DeleteEntryConsistent ==
  \A st \in {undo_stack, redo_stack} : \A k \in 1..Len(st) :
    st[k].type = "Delete" => st[k].end - st[k].start = Len(st[k].deleted_text)

\* the window after the arrow key was pressed n times
RECURSIVE Press(_, _, _, _)
Press(w, c, key, n) ==
  IF n = 0 THEN w ELSE Press(handle_arrow_key(w, c, key), c, key, n - 1)

\* the row the window's cursor is on
Row(w, c) == get_position_from_index(c, w.cursor_pos)[1]

\* C19: from a view whose cursor is on row r > n, Up pressed n times and
\* then Down pressed n times, with nothing in between, brings the cursor
\* back to the offset it started from.
C19_VerticalGoal ==
  \A i \in Views : \A n \in 1..Len(content) :
    Row(windows[i], content) > n =>
      Press(Press(windows[i], content, "Up", n), content, "Down", n).cursor_pos
        = windows[i].cursor_pos

\* C20: the window_id values of the registered views are pairwise distinct.
C20_UniqueWindowIds ==
  \A i \in Views : \A j \in Views :
    windows[i].window_id = windows[j].window_id => i = j

\* a command that changes nothing: an Insert of no text or a Delete of an
\* empty range
ZeroLength(cmd) ==
  IF cmd.type = "Insert" THEN cmd.text = <<>> ELSE cmd.start = cmd.end

\* C21: no entry of undo_stack, pushed or merged by a view's gestures, is a
\* zero-length command, and an undo of the top entry changes content.
C21_NoEmptyUndoStep ==
  /\ \A k \in 1..Len(undo_stack) : ~ZeroLength(undo_stack[k])
  /\ undo_stack # <<>> => DocUndo(TheDoc).doc.content # content

====
